---- MODULE Spec2Model ----
(***************************************************************************)
(* A model of TL_functions.py: the random weak-composition sampler, the    *)
(* deduplicating sample collector, the time-limited variance sampling      *)
(* engine (get_var_for_Q_N under the SIGALRM deadline of time_limit), the  *)
(* per-study drivers sample_var / TL_analysis / TL_from_sample with their  *)
(* append-mode output files, and the inclusion filter.                     *)
(***************************************************************************)
EXTENDS Integers, Sequences, FiniteSets, TLC

VARIABLES
    \* ---- rand_compositions(q, n, sample_size, zeros) ----
    cq, cn, cT,      \* its arguments q, n, sample_size
    comps,           \* the list comps
    comp,            \* the last value returned by RandomComposition_weak
    ndraws,          \* number of calls of RandomComposition_weak so far
    cpc,             \* "loop" | "returned" | "raised" | "exit"
    cret,            \* the returned list
    \* ---- inclusion_criteria(dat_study, sig) ----
    dat_study,       \* the study's rows: [Q, N, lmean, lvar]
    sig,             \* the argument sig of the last call
    result,          \* "pending" | "True" | "False" | "None"
    \* ---- the data table and the output files ----
    data,            \* rows of get_QN_mean_var_data: [study, Q, N]
    files,           \* output file name -> the rows it holds
    \* ---- sample_var / TL_analysis / TL_from_sample ----
    pc,              \* control point of the running top-level call
    study, sample_size, t_limit,   \* its arguments
    data_study,      \* the rows of the study
    idx,             \* position of the for-loop in data_study / study_list
    var_parts,       \* the list var_parts
    study_list,      \* TL_from_sample: sorted unique studies
    dat_sample,      \* TL_from_sample: its argument
    ncalls,          \* number of top-level calls made
    \* ---- get_var_for_Q_N ----
    gpc,             \* "none" | "loop" | "drawn" | "exiting" | "returned"
    QN_var,          \* the list QN_var
    cur,             \* variance computed by the running iteration
    alarm,           \* "off" | "armed": the pending SIGALRM
    \* ---- history of the running call (read by the properties only) ----
    expired,         \* the alarm fired during this get_var_for_Q_N call
    drawlog,         \* variances of the iterations completed in this call
    lens             \* lengths returned by get_var_for_Q_N in this study

compVars == <<cq, cn, cT, comps, comp, ndraws, cpc, cret>>
inclVars == <<dat_study, sig, result>>
pipeVars == <<data, files, pc, study, sample_size, t_limit, data_study, idx,
              var_parts, study_list, dat_sample, ncalls, gpc, QN_var, cur,
              alarm, expired, drawlog, lens>>
vars == <<compVars, inclVars, pipeVars>>

----------------------------------------------------------------------------
(* Bounds of the model *)
MaxQ == 3
MaxN == 3
MaxT == 2
MaxPairs == 6
MaxRecs == 2
MaxSample == 2
MaxCalls == 2

(* Program constants *)
Q_MIN == 5
N_MIN == 3
n_MIN == 5

----------------------------------------------------------------------------
(* Sequence helpers: sum(), sorted(), list.reverse() *)

RECURSIVE SeqSum(_)
SeqSum(s) == IF s = <<>> THEN 0 ELSE Head(s) + SeqSum(Tail(s))

RECURSIVE Insert(_, _)
Insert(x, s) ==
    IF s = <<>> THEN <<x>>
    ELSE IF x <= Head(s) THEN <<x>> \o s
    ELSE <<Head(s)>> \o Insert(x, Tail(s))

RECURSIVE SortAsc(_)
SortAsc(s) == IF s = <<>> THEN <<>> ELSE Insert(Head(s), SortAsc(Tail(s)))

Reverse(s) == [i \in 1..Len(s) |-> s[Len(s) + 1 - i]]

Range(s) == {s[i] : i \in 1..Len(s)}

----------------------------------------------------------------------------
(* np.random.randint(low, high, size): every outcome of the draw.  A       *)
(* negative size raises; an empty range (low >= high) raises when samples  *)
(* are asked for, and with size = 0 raises or returns the empty array      *)
(* depending on the numpy build.                                           *)
Raised == [raised |-> TRUE, val |-> <<>>]
Value(v) == [raised |-> FALSE, val |-> v]

randint(low, high, size) ==
    IF size < 0 THEN {Raised}
    ELSE IF low >= high
         THEN (IF size = 0 THEN {Raised, Value(<<>>)} ELSE {Raised})
         ELSE {Value(d) : d \in [1..size -> low..(high - 1)]}

(* RandomComposition_weak(q, n), given the outcome of its randint draw:    *)
(* the ValueError of the draw propagates.                                  *)
RandomComposition_weak(q, n, draw) ==
    IF draw.raised THEN Raised
    ELSE LET indices == SortAsc(draw.val)
             hi == indices \o <<q>>
             lo == <<0>> \o indices
         IN  Value([i \in 1..(Len(indices) + 1) |-> hi[i] - lo[i]])

(* comp.sort(); comp.reverse() *)
SortDesc(c) == Reverse(SortAsc(c))

(* The test of line 65; a draw that fails it ends the process (line 67).   *)
CompInvalid(c, q, n) == Len(c) # n \/ SeqSum(c) # q

(* Variant: the raw draws are returned as they are. *)
DedupNone(cs) == {cs}

(* comps = [list(x) for x in set(tuple(x) for x in comps)]: the distinct   *)
(* values of comps, in the iteration order of the set (any order).         *)
Dedup(cs) ==
    LET S == Range(cs)
    IN  {f \in [1..Cardinality(S) -> S] : Range(f) = S}

----------------------------------------------------------------------------
(* rand_compositions, one loop iteration per step *)

CompInit ==
    /\ cq \in 0..MaxQ
    /\ cn \in 0..MaxN
    /\ cT \in 1..MaxT
    /\ comps = <<>>
    /\ comp = <<>>
    /\ ndraws = 0
    /\ cpc = "loop"
    /\ cret = <<>>

RC_Draw ==
    /\ cpc = "loop"
    /\ Len(comps) < cT
    /\ \E draw \in randint(0, cq, cn - 1) :
         LET c == RandomComposition_weak(cq, cn, draw)
         IN  /\ ndraws' = ndraws + 1
             /\ IF c.raised
                THEN /\ cpc' = "raised"
                     /\ UNCHANGED <<comps, comp>>
                ELSE /\ comp' = c.val
                     /\ IF CompInvalid(c.val, cq, cn)
                        THEN /\ cpc' = "exit"
                             /\ UNCHANGED comps
                        ELSE /\ comps' = Append(comps, SortDesc(c.val))
                             /\ cpc' = "loop"
    /\ UNCHANGED <<cq, cn, cT, cret>>
    /\ UNCHANGED <<inclVars, pipeVars>>

RC_Return ==
    /\ cpc = "loop"
    /\ ~(Len(comps) < cT)
    /\ cret' \in Dedup(comps)
    /\ cpc' = "returned"
    /\ UNCHANGED <<cq, cn, cT, comps, comp, ndraws>>
    /\ UNCHANGED <<inclVars, pipeVars>>

----------------------------------------------------------------------------
(* inclusion_criteria.  A row carries Q, N and the logarithms (base 2) of  *)
(* its mean and variance, so that the regression sums are integers.        *)

(* stats.linregress(x, y)[3] < 0.05: the two-sided test of a zero slope    *)
(* with n - 2 degrees of freedom rejects exactly when r^2 exceeds the      *)
(* critical value for n points.  Fewer than three points, or no variation  *)
(* in x or y, give p = 1 or nan, never < 0.05.                             *)
CritR2(n) ==
    CASE n = 3 -> 9938 [] n = 4 -> 9025 [] n = 5 -> 7714 [] n = 6 -> 6584
      [] n = 7 -> 5693 [] n = 8 -> 4994 [] n = 9 -> 4441 [] OTHER -> 3993

linregress_significant(rows) ==
    LET n   == Len(rows)
        xs  == [i \in 1..n |-> rows[i].lmean]
        ys  == [i \in 1..n |-> rows[i].lvar]
        Sx  == SeqSum(xs)
        Sy  == SeqSum(ys)
        Sxx == n * SeqSum([i \in 1..n |-> xs[i] * xs[i]]) - Sx * Sx
        Syy == n * SeqSum([i \in 1..n |-> ys[i] * ys[i]]) - Sy * Sy
        Sxy == n * SeqSum([i \in 1..n |-> xs[i] * ys[i]]) - Sx * Sy
    IN  /\ n >= 3
        /\ Sxx * Syy > 0
        /\ 10000 * Sxy * Sxy > CritR2(n) * Sxx * Syy

(* dat_study[(dat_study['N'] >= N_MIN) * (dat_study['Q'] >= Q_MIN)] *)
FilterQN(rows) == SelectSeq(rows, LAMBDA r : r.N >= N_MIN /\ r.Q >= Q_MIN)

(* Variant: the regression is fitted after the filter. *)
RegressionRowsFiltered(rows) == FilterQN(rows)

(* The regression is fitted before the filter is applied (line 218).       *)
RegressionRows(rows) == rows

inclusion_criteria(rows, s) ==
    LET pval_sig == linregress_significant(RegressionRows(rows))
        kept     == FilterQN(rows)
    IN  IF Len(kept) >= n_MIN
        THEN (IF (~s) \/ pval_sig THEN "True" ELSE "None")
        ELSE "False"

PairKinds ==
    {[Q |-> 5, N |-> 3, lmean |-> 0, lvar |-> 0],
     [Q |-> 5, N |-> 3, lmean |-> 1, lvar |-> 1],
     [Q |-> 5, N |-> 3, lmean |-> 1, lvar |-> 0],
     [Q |-> 4, N |-> 3, lmean |-> 1, lvar |-> 0],
     [Q |-> 5, N |-> 2, lmean |-> 0, lvar |-> 1]}

InclInit ==
    /\ dat_study = <<>>
    /\ sig = FALSE
    /\ result = "pending"

AddPair ==
    /\ Len(dat_study) < MaxPairs
    /\ \E r \in PairKinds : dat_study' = Append(dat_study, r)
    /\ result' = "pending"
    /\ UNCHANGED sig
    /\ UNCHANGED <<compVars, pipeVars>>

CallInclusion ==
    /\ dat_study # <<>>
    /\ \E s \in BOOLEAN :
         /\ sig' = s
         /\ result' = inclusion_criteria(dat_study, s)
    /\ UNCHANGED dat_study
    /\ UNCHANGED <<compVars, pipeVars>>

----------------------------------------------------------------------------
(* The variance sampling engine and the per-study drivers.                 *)
(* Studies are numbered; their order is the order of the study strings.    *)
(* The analysis mode is 'composition' (the partition library is external). *)

Studies == {1, 2}
QNKinds == {[Q |-> 1, N |-> 2], [Q |-> 1, N |-> 3]}
DataRows == {[study |-> s, Q |-> k.Q, N |-> k.N] : s \in Studies, k \in QNKinds}
TLimits == {0, 7200}
FileNames == {"var_full", "TL_form", "var_predicted", "form_predicted"}

(* np.var(x, ddof = 1) = sum((x - mean)^2) / (n - 1), held as the integer  *)
(* n * (n - 1) * var = n * sum(x^2) - sum(x)^2; nan for a single part.     *)
NaN == -1
np_var(x) ==
    LET len == Len(x)
    IN  IF len < 2 THEN NaN
        ELSE len * SeqSum([i \in 1..len |-> x[i] * x[i]]) - SeqSum(x) * SeqSum(x)

(* rand_compositions(q, n, 1, True)[0], for every outcome of the draw *)
DrawOne(q, n) ==
    {LET c == RandomComposition_weak(q, n, d)
     IN  IF c.raised \/ CompInvalid(c.val, q, n) THEN Raised
         ELSE Value(SortDesc(c.val)) : d \in randint(0, q, n - 1)}

(* signal.alarm(seconds): zero seconds arms nothing (and cancels) *)
signal_alarm(seconds) == IF seconds > 0 THEN "armed" ELSE "off"

(* Variant: the finally clause leaves the alarm as it is. *)
FinallyKeep(a) == a

(* time_limit's finally clause: signal.alarm(0) *)
FinallyAlarm(a) == signal_alarm(0)

(* Variant: the except clause drops what was sampled. *)
ExceptReturnEmpty(v) == <<>>

(* the except clause of get_var_for_Q_N: return QN_var *)
ExceptReturn(v) == v

(* data[data['study'] == study] *)
StudyRows(d, s) == SelectSeq(d, LAMBDA r : r.study = s)

(* data_study[data_study['N'] > 2] *)
FilterN(rows) == SelectSeq(rows, LAMBDA r : r.N > 2)

(* Variant: the rows are written as soon as there are any. *)
WriteGuardNonEmpty(ds, vp) == Len(vp) > 0

(* lines 117 and 177: if len(data_study) == len(var_parts) *)
WriteGuard(ds, vp) == Len(ds) = Len(vp)

(* Variant: the file is opened with mode 'w'. *)
OpenTruncate(old, rows) == rows

(* open(name, 'a') followed by the writes *)
OpenAppend(old, rows) == old \o rows

(* Variant: no break, the vector is kept whatever its length. *)
LoopAlwaysGoesOn(v, size) == TRUE

(* lines 112-115 / 173-175: the loop goes on after a full vector and       *)
(* breaks after a short one.                                               *)
LoopGoesOn(v, size) == Len(v) = size

(* lines 110 and 113: out_row = [x for x in record]; out_row.extend(QN_var) *)
out_row(record, v) ==
    [study |-> record.study, Q |-> record.Q, N |-> record.N, samples |-> v]

(* sorted(np.unique(dat_sample['study'])) *)
SortedUnique(rows) == SortAsc(
    LET S == {rows[i].study : i \in 1..Len(rows)}
    IN  CHOOSE f \in [1..Cardinality(S) -> S] : Range(f) = S)

Idle == pc = "idle" /\ gpc = "none"

PipeInit ==
    /\ data \in UNION {[1..k -> DataRows] : k \in 1..MaxRecs}
    /\ files = [f \in FileNames |-> <<>>]
    /\ pc = "idle"
    /\ study = 0 /\ sample_size = 0 /\ t_limit = 0
    /\ data_study = <<>> /\ idx = 0 /\ var_parts = <<>>
    /\ study_list = <<>> /\ dat_sample = <<>>
    /\ ncalls = 0
    /\ gpc = "none" /\ QN_var = <<>> /\ cur = NaN /\ alarm = "off"
    /\ expired = FALSE /\ drawlog = <<>> /\ lens = <<>>

otherVars == <<compVars, inclVars>>
getVars == <<gpc, QN_var, cur, alarm, expired, drawlog>>
callVars == <<study, sample_size, t_limit, data_study, study_list, dat_sample, ncalls>>

(* The locals of a call end with it.                                       *)
LeaveGet ==
    /\ gpc' = "none"
    /\ QN_var' = <<>>
    /\ cur' = NaN
    /\ expired' = FALSE
    /\ drawlog' = <<>>

LeaveCall ==
    /\ pc' = "idle"
    /\ study' = 0 /\ sample_size' = 0 /\ t_limit' = 0
    /\ data_study' = <<>> /\ idx' = 0 /\ var_parts' = <<>>
    /\ study_list' = <<>> /\ dat_sample' = <<>>
    /\ lens' = <<>>

(* ---- get_var_for_Q_N(q, n, sample_size, t_limit, 'composition') ---- *)

(* QN_var = []; try: with time_limit(t_limit): installs the handler and    *)
(* arms the alarm.                                                         *)
EnterGet ==
    /\ gpc' = "loop"
    /\ QN_var' = <<>>
    /\ cur' = NaN
    /\ alarm' = signal_alarm(t_limit)
    /\ expired' = FALSE
    /\ drawlog' = <<>>

(* lines 84-87 and the np.var of line 88: one draw and its variance *)
G_Draw ==
    /\ gpc = "loop"
    /\ Len(QN_var) < sample_size
    /\ \E out \in DrawOne(data_study[idx].Q, data_study[idx].N) :
         IF out.raised
         THEN \* the ValueError leaves the with-block (finally) and the call
              /\ alarm' = FinallyAlarm(alarm)
              /\ gpc' = "none"
              /\ pc' = "raised"
              /\ UNCHANGED cur
         ELSE /\ cur' = np_var(out.val)
              /\ gpc' = "drawn"
              /\ UNCHANGED <<alarm, pc>>
    /\ UNCHANGED <<data, files, idx, var_parts, lens, QN_var, expired, drawlog>>
    /\ UNCHANGED <<callVars, otherVars>>

(* line 88: QN_var.append(...) *)
G_Append ==
    /\ gpc = "drawn"
    /\ QN_var' = Append(QN_var, cur)
    /\ drawlog' = Append(drawlog, cur)
    /\ cur' = NaN
    /\ gpc' = "loop"
    /\ UNCHANGED <<data, files, pc, idx, var_parts, lens, alarm, expired>>
    /\ UNCHANGED <<callVars, otherVars>>

(* line 89: return QN_var, which first leaves the with-block *)
G_Return ==
    /\ gpc = "loop"
    /\ ~(Len(QN_var) < sample_size)
    /\ gpc' = "exiting"
    /\ UNCHANGED <<data, files, pc, idx, var_parts, lens>>
    /\ UNCHANGED <<QN_var, cur, alarm, expired, drawlog>>
    /\ UNCHANGED <<callVars, otherVars>>

(* line 31: the finally clause on the normal exit *)
G_Finally ==
    /\ gpc = "exiting"
    /\ alarm' = FinallyAlarm(alarm)
    /\ gpc' = "returned"
    /\ UNCHANGED <<data, files, pc, idx, var_parts, lens>>
    /\ UNCHANGED <<QN_var, cur, expired, drawlog>>
    /\ UNCHANGED <<callVars, otherVars>>

(* The alarm fires: signal_handler raises TimeoutException at the point    *)
(* the program has reached.  Inside the with-block the finally clause      *)
(* runs and the except clause of line 90 returns QN_var; anywhere else     *)
(* nothing catches it.                                                     *)
InTry == gpc \in {"loop", "drawn", "exiting"}

G_Timeout ==
    /\ alarm = "armed"
    /\ pc \notin {"raised", "escaped"}
    /\ IF InTry
       THEN /\ alarm' = FinallyAlarm("off")
            /\ QN_var' = ExceptReturn(QN_var)
            /\ cur' = NaN
            /\ gpc' = "returned"
            /\ expired' = TRUE
            /\ UNCHANGED pc
       ELSE /\ alarm' = "off"
            /\ pc' = "escaped"
            /\ UNCHANGED <<QN_var, cur, gpc, expired>>
    /\ UNCHANGED <<data, files, idx, var_parts, lens, drawlog>>
    /\ UNCHANGED <<callVars, otherVars>>

(* ---- sample_var(data, study, sample_size, t_limit, 'composition') ---- *)

Call_sample_var ==
    /\ Idle
    /\ ncalls < MaxCalls
    /\ \E s \in Studies, size \in 1..MaxSample, t \in TLimits :
         /\ study' = s
         /\ sample_size' = size
         /\ t_limit' = t
         /\ data_study' = StudyRows(data, s)
    /\ var_parts' = <<>>
    /\ idx' = 1
    /\ lens' = <<>>
    /\ ncalls' = ncalls + 1
    /\ pc' = "sv_loop"
    /\ UNCHANGED <<data, files, study_list, dat_sample, getVars, otherVars>>

(* line 111: the call of get_var_for_Q_N for the next record *)
SV_CallGet ==
    /\ pc = "sv_loop"
    /\ idx <= Len(data_study)
    /\ EnterGet
    /\ pc' = "sv_get"
    /\ UNCHANGED <<data, files, idx, var_parts, lens, callVars, otherVars>>

(* lines 112-115, on the return of get_var_for_Q_N *)
SV_AfterGet ==
    /\ pc = "sv_get"
    /\ gpc = "returned"
    /\ LeaveGet
    /\ lens' = Append(lens, Len(QN_var))
    /\ IF LoopGoesOn(QN_var, sample_size)
       THEN /\ var_parts' = Append(var_parts, out_row(data_study[idx], QN_var))
            /\ idx' = idx + 1
            /\ pc' = "sv_loop"
       ELSE /\ pc' = "sv_check"
            /\ UNCHANGED <<var_parts, idx>>
    /\ UNCHANGED <<data, files, alarm, callVars, otherVars>>

(* the for-loop of line 107 runs out of records *)
SV_LoopEnd ==
    /\ pc = "sv_loop"
    /\ ~(idx <= Len(data_study))
    /\ pc' = "sv_check"
    /\ UNCHANGED <<data, files, idx, var_parts, lens, getVars, callVars, otherVars>>

(* lines 117-121 *)
SV_Write ==
    /\ pc = "sv_check"
    /\ files' = IF WriteGuard(data_study, var_parts)
                THEN [files EXCEPT !["var_full"] = OpenAppend(@, var_parts)]
                ELSE files
    /\ LeaveCall
    /\ UNCHANGED <<data, ncalls, getVars, otherVars>>

(* ---- TL_analysis(data, study, sample_size, t_limit, 'composition') ---- *)

Call_TL_analysis ==
    /\ Idle
    /\ ncalls < MaxCalls
    /\ \E s \in Studies, size \in 1..MaxSample, t \in TLimits :
         /\ study' = s
         /\ sample_size' = size
         /\ t_limit' = t
         /\ data_study' = FilterN(StudyRows(data, s))
    /\ var_parts' = <<>>
    /\ idx' = 1
    /\ lens' = <<>>
    /\ ncalls' = ncalls + 1
    /\ pc' = "tl_loop"
    /\ UNCHANGED <<data, files, study_list, dat_sample, getVars, otherVars>>

(* line 172 *)
TL_CallGet ==
    /\ pc = "tl_loop"
    /\ idx <= Len(data_study)
    /\ EnterGet
    /\ pc' = "tl_get"
    /\ UNCHANGED <<data, files, idx, var_parts, lens, callVars, otherVars>>

(* lines 173-175 *)
TL_AfterGet ==
    /\ pc = "tl_get"
    /\ gpc = "returned"
    /\ LeaveGet
    /\ lens' = Append(lens, Len(QN_var))
    /\ IF LoopGoesOn(QN_var, sample_size)
       THEN /\ var_parts' = Append(var_parts, QN_var)
            /\ idx' = idx + 1
            /\ pc' = "tl_loop"
       ELSE /\ pc' = "tl_check"
            /\ UNCHANGED <<var_parts, idx>>
    /\ UNCHANGED <<data, files, alarm, callVars, otherVars>>

TL_LoopEnd ==
    /\ pc = "tl_loop"
    /\ ~(idx <= Len(data_study))
    /\ pc' = "tl_check"
    /\ UNCHANGED <<data, files, idx, var_parts, lens, getVars, callVars, otherVars>>

(* lines 179-187: one row per combination; f3 is held as the sum of the    *)
(* vector (mean * sample_size); the median and percentile columns are      *)
(* further functions of the same vector.                                   *)
var_study(ds, vp) ==
    [i \in 1..Len(vp) |-> [study |-> ds[i].study, Q |-> ds[i].Q, N |-> ds[i].N,
                           f3 |-> SeqSum(vp[i])]]

(* lines 177-191: the per-combination file *)
TL_WriteVar ==
    /\ pc = "tl_check"
    /\ IF WriteGuard(data_study, var_parts)
       THEN /\ files' = [files EXCEPT !["var_predicted"] =
                            OpenAppend(@, var_study(data_study, var_parts))]
            /\ pc' = "tl_form"
            /\ UNCHANGED <<study, sample_size, t_limit, data_study, idx,
                           var_parts, study_list, dat_sample, lens>>
       ELSE /\ UNCHANGED files
            /\ LeaveCall
    /\ UNCHANGED <<data, ncalls, getVars, otherVars>>

(* lines 194-214: the regressions over the sample_size simulations and     *)
(* the one summary row of the study.  The row is held as the study and     *)
(* the number of regressions behind psig.                                  *)
TL_WriteForm ==
    /\ pc = "tl_form"
    /\ files' = [files EXCEPT !["form_predicted"] =
                    OpenAppend(@, <<[study |-> study, nsim |-> sample_size]>>)]
    /\ LeaveCall
    /\ UNCHANGED <<data, ncalls, getVars, otherVars>>

(* ---- TL_from_sample(dat_sample, 'composition') ---- *)

(* dat_sample is the table get_var_sample_file reads from the file         *)
(* sample_var wrote: rows that all carry the same number of samples.       *)
Call_TL_from_sample ==
    /\ Idle
    /\ ncalls < MaxCalls
    /\ files["var_full"] # <<>>
    /\ \A i, j \in 1..Len(files["var_full"]) :
         Len(files["var_full"][i].samples) = Len(files["var_full"][j].samples)
    /\ dat_sample' = files["var_full"]
    /\ study_list' = SortedUnique(files["var_full"])
    /\ idx' = 1
    /\ ncalls' = ncalls + 1
    /\ pc' = "fs_loop"
    /\ UNCHANGED <<data, files, study, sample_size, t_limit, data_study,
                   var_parts, lens, getVars, otherVars>>

(* lines 143-162: one study of study_list, one row appended *)
FS_Study ==
    /\ pc = "fs_loop"
    /\ idx <= Len(study_list)
    /\ files' = [files EXCEPT !["TL_form"] =
                    OpenAppend(@, <<[study |-> study_list[idx],
                                     nsim |-> Len(dat_sample[1].samples)]>>)]
    /\ idx' = idx + 1
    /\ UNCHANGED <<data, pc, var_parts, lens, getVars, callVars, otherVars>>

FS_End ==
    /\ pc = "fs_loop"
    /\ ~(idx <= Len(study_list))
    /\ LeaveCall
    /\ UNCHANGED <<data, files, ncalls, getVars, otherVars>>

Next ==
    \/ Call_sample_var \/ SV_CallGet \/ SV_AfterGet \/ SV_LoopEnd \/ SV_Write
    \/ Call_TL_analysis \/ TL_CallGet \/ TL_AfterGet \/ TL_LoopEnd
    \/ TL_WriteVar \/ TL_WriteForm
    \/ Call_TL_from_sample \/ FS_Study \/ FS_End
    \/ G_Draw \/ G_Append \/ G_Return \/ G_Finally \/ G_Timeout

PipeIdle ==
    /\ data = <<>>
    /\ files = [f \in FileNames |-> <<>>]
    /\ pc = "off"
    /\ study = 0 /\ sample_size = 0 /\ t_limit = 0
    /\ data_study = <<>> /\ idx = 0 /\ var_parts = <<>>
    /\ study_list = <<>> /\ dat_sample = <<>>
    /\ ncalls = 0
    /\ gpc = "none" /\ QN_var = <<>> /\ cur = NaN /\ alarm = "off"
    /\ expired = FALSE /\ drawlog = <<>> /\ lens = <<>>

----------------------------------------------------------------------------
CompIdle == cq = 0 /\ cn = 0 /\ cT = 1 /\ comps = <<>> /\ comp = <<>>
            /\ ndraws = 0 /\ cpc = "idle" /\ cret = <<>>

Init == CompIdle /\ InclInit /\ PipeInit
Spec == Init /\ [][Next]_vars

(* One call of sample_var on a table of one record, over every (Q, N).     *)
GetInit ==
    /\ \E Q \in 1..MaxQ, N \in 1..MaxN :
         /\ data = <<[study |-> 1, Q |-> Q, N |-> N]>>
         /\ data_study = data
    /\ files = [f \in FileNames |-> <<>>]
    /\ pc = "sv_loop"
    /\ study = 1
    /\ sample_size \in 1..MaxSample
    /\ t_limit \in TLimits
    /\ idx = 1 /\ var_parts = <<>>
    /\ study_list = <<>> /\ dat_sample = <<>>
    /\ ncalls = 1
    /\ gpc = "none" /\ QN_var = <<>> /\ cur = NaN /\ alarm = "off"
    /\ expired = FALSE /\ drawlog = <<>> /\ lens = <<>>

NextGet ==
    \/ SV_CallGet \/ SV_AfterGet \/ SV_LoopEnd \/ SV_Write
    \/ G_Draw \/ G_Append \/ G_Return \/ G_Finally \/ G_Timeout
InitGet == CompIdle /\ InclInit /\ GetInit
SpecGet == InitGet /\ [][NextGet]_vars

NextComp == RC_Draw \/ RC_Return
InitComp == CompInit /\ InclInit /\ PipeIdle
SpecComp == InitComp /\ [][NextComp]_vars

NextIncl == AddPair \/ CallInclusion
InitIncl == CompIdle /\ InclInit /\ PipeIdle
SpecIncl == InitIncl /\ [][NextIncl]_vars

----------------------------------------------------------------------------
(* Properties *)

InRange(c) == \A i \in 1..Len(c) : c[i] >= 0

IsPrefix(a, b) == Len(a) <= Len(b) /\ SubSeq(b, 1, Len(a)) = a

(* every combination of the running study returned a full vector *)
FullySampled ==
    /\ Len(lens) = Len(data_study)
    /\ \A i \in 1..Len(lens) : lens[i] = sample_size

(* some combination of the running study returned a short vector *)
ShortSeen == \E i \in 1..Len(lens) : lens[i] < sample_size

(* C1: for every Q >= 0 and N >= 1 and every outcome of the cut-point     *)
(* draw, RandomComposition_weak(Q, N) returns without failing a sequence   *)
(* of exactly N integers, each >= 0, whose sum is exactly Q.               *)
C1_Composition ==
    (cq >= 0 /\ cn >= 1) =>
        /\ cpc \notin {"raised", "exit"}
        /\ ndraws > 0 => /\ Len(comp) = cn
                         /\ SeqSum(comp) = cq
                         /\ InRange(comp)

(* C6: for (Q, N) of a data record (both >= 1) and T >= 1,                 *)
(* rand_compositions makes exactly T raw draws, none of which fails, and   *)
(* returns pairwise distinct samples, more than 0 and at most T of them,   *)
(* each of N parts, all >= 0, that sum to Q.                               *)
C6_Collector ==
    (cq >= 1 /\ cn >= 1) =>
        /\ cpc \in {"loop", "returned"}
        /\ ndraws = Len(comps) /\ ndraws <= cT
        /\ cpc = "returned" =>
             /\ ndraws = cT
             /\ Len(cret) > 0 /\ Len(cret) <= cT
             /\ \A i, j \in 1..Len(cret) : i # j => cret[i] # cret[j]
             /\ \A i \in 1..Len(cret) :
                  Len(cret[i]) = cn /\ SeqSum(cret[i]) = cq /\ InRange(cret[i])

(* two equal draws collapse: fewer samples than the target *)
C6_Witness ==
    /\ cpc = "returned" /\ cq >= 2 /\ cn >= 2 /\ cT >= 2
    /\ ndraws = cT /\ Len(cret) < cT

(* C2: in sample_var and TL_analysis, once a combination of the study has  *)
(* returned fewer than sample_size variances no step of the call changes   *)
(* any output file, and a step that writes rows is taken only when every   *)
(* combination of the study returned exactly sample_size variances.        *)
C2_NoPartialOutput ==
    [][ /\ ShortSeen => files' = files
        /\ (files' # files /\ pc \in {"sv_check", "tl_check", "tl_form"})
              => FullySampled ]_vars

(* a study whose first combination completed and whose second timed out,   *)
(* at the test of line 117, with nothing written                           *)
C2_Witness ==
    /\ pc \in {"sv_check", "tl_check"}
    /\ Len(data_study) = 2 /\ Len(var_parts) = 1
    /\ Len(lens) = 2 /\ lens[1] = sample_size /\ lens[2] < sample_size
    /\ \A f \in FileNames : files[f] = <<>>

(* C3: get_var_for_Q_N never fails and ends Complete or PartialResult: the *)
(* returned list is the variances of the completed draws in draw order,    *)
(* never longer than sample_size; it has sample_size entries when the      *)
(* deadline did not expire, and otherwise the deadline expired; after the  *)
(* deadline no further draw is made.                                       *)
C3_Terminal ==
    /\ pc \notin {"raised", "escaped"}
    /\ expired => gpc = "returned"
    /\ gpc = "returned" =>
         /\ QN_var = drawlog
         /\ Len(QN_var) <= sample_size
         /\ ~expired => Len(QN_var) = sample_size
         /\ Len(QN_var) < sample_size => expired

(* a partial, non-empty result *)
C3_Witness ==
    /\ gpc = "returned" /\ expired
    /\ Len(QN_var) >= 1 /\ Len(QN_var) < sample_size

(* C4 as stated: with a time limit of 0 and sample_size >= 2 the call      *)
(* returns at most one variance.                                           *)
C4_ZeroLimit ==
    (gpc = "returned" /\ t_limit = 0 /\ sample_size >= 2) => Len(QN_var) <= 1

(* C5: the study is admitted exactly when at least 5 of its pairs have     *)
(* Q >= 5 and N >= 3, and sig is false or the regression over all its      *)
(* pairs is significant (p < 0.05).                                        *)
Qualifying(rows) == {i \in 1..Len(rows) : rows[i].Q >= 5 /\ rows[i].N >= 3}

C5_Admission ==
    result # "pending" =>
        ((result = "True") <=>
            /\ Cardinality(Qualifying(dat_study)) >= 5
            /\ (~sig) \/ linregress_significant(dat_study))

(* exactly 5 qualifying pairs whose own regression is significant, one     *)
(* more pair that makes the regression over all pairs non-significant,     *)
(* sig = True: not admitted                                                *)
C5_Witness ==
    /\ result \in {"None", "False"} /\ sig
    /\ Cardinality(Qualifying(dat_study)) = 5
    /\ Len(dat_study) = 6
    /\ linregress_significant(FilterQN(dat_study))
    /\ ~linregress_significant(dat_study)

(* C7: inclusion_criteria returns True or False on every input.            *)
C7_Boolean == result \in {"pending", "True", "False"}

(* C8: no step removes or changes a row of an output file, and every       *)
(* successful run appends its rows after the ones already there: the       *)
(* study's rows in sample_var, one row per combination and then one        *)
(* summary row in TL_analysis, one row per study in TL_from_sample.        *)
Grown(f, k) == Len(files'[f]) = Len(files[f]) + k

C8_AppendOnly ==
    [][ /\ \A f \in FileNames : IsPrefix(files[f], files'[f])
        /\ (pc = "sv_check" /\ FullySampled) =>
             /\ Grown("var_full", Len(data_study))
             /\ \A i \in 1..Len(data_study) :
                  LET r == files'["var_full"][Len(files["var_full"]) + i]
                  IN  /\ r.study = study
                      /\ r.Q = data_study[i].Q /\ r.N = data_study[i].N
                      /\ Len(r.samples) = sample_size
        /\ (pc = "tl_check" /\ FullySampled) =>
             Grown("var_predicted", Len(data_study))
        /\ pc = "tl_form" => Grown("form_predicted", 1)
        /\ (pc = "fs_loop" /\ idx <= Len(study_list)) => Grown("TL_form", 1)
      ]_vars

(* the same study written twice by sample_var: its rows are there twice *)
C8_Witness ==
    /\ pc = "idle"
    /\ \E s \in Studies :
         LET rows == StudyRows(data, s)
             out  == files["var_full"]
         IN  /\ Len(rows) > 0
             /\ Len(out) = 2 * Len(rows)
             /\ \A i \in 1..Len(out) : out[i].study = s
             /\ \A i \in 1..Len(rows) :
                  out[i].Q = rows[i].Q /\ out[Len(rows) + i].Q = rows[i].Q

(* C9: the TimeoutException never reaches the caller of get_var_for_Q_N,   *)
(* and outside a running get_var_for_Q_N call (before it, after it has     *)
(* returned by either path, while rows are written) no alarm is pending.   *)
C9_DeadlineConfined ==
    /\ pc # "escaped"
    /\ gpc \in {"none", "returned"} => alarm = "off"

(* after a full first combination under a positive limit, the second one   *)
(* is being sampled under its own alarm                                    *)
C9_Witness ==
    /\ pc \in {"sv_get", "tl_get"} /\ t_limit > 0
    /\ Len(lens) = 1 /\ lens[1] = sample_size
    /\ gpc = "drawn" /\ alarm = "armed"

(* C10: combinations are sampled in data order and sampling stops at the   *)
(* first short one: only the last call of get_var_for_Q_N can have         *)
(* returned short, the k-th call is for the k-th record, and var_parts     *)
(* holds one vector per combination that returned full.                    *)
C10_StopAtFirstShort ==
    /\ \A i \in 1..(Len(lens) - 1) : lens[i] = sample_size
    /\ pc \in {"sv_get", "tl_get"} => idx = Len(lens) + 1
    /\ Len(var_parts) = Cardinality({i \in 1..Len(lens) : lens[i] = sample_size})
    /\ \A i \in 1..Len(var_parts) :
         IF pc \in {"sv_loop", "sv_get", "sv_check"}
         THEN Len(var_parts[i].samples) = sample_size
         ELSE Len(var_parts[i]) = sample_size

(* the first of two combinations returned short: the second is never       *)
(* sampled                                                                 *)
C10_Witness ==
    /\ pc \in {"sv_check", "tl_check"}
    /\ Len(data_study) = 2
    /\ Len(lens) = 1 /\ lens[1] < sample_size
    /\ var_parts = <<>>
====
